---- MODULE Spec2Model ----
(***************************************************************************)
(* The city import pipeline of scripts/*.py: a driver reads the source     *)
(* table in chunks, turns every raw row into a tuple for the cities table  *)
(* (or drops it), bulk-inserts the tuples of a chunk with                  *)
(* INSERT ... ON CONFLICT DO NOTHING and commits, chunk after chunk.       *)
(*                                                                         *)
(* Python strings are sequences of atoms: " " is whitespace, "," a comma,  *)
(* every other atom a run of characters holding neither.  Floats are       *)
(* integers counting hundredths.  None is the record Absent.               *)
(***************************************************************************)
EXTENDS Integers, Sequences, FiniteSets

\* ------------------------------------------------------------------ bounds

\* Rows of the source table (len(df)).
SrcLen == 3
\* The batch sizes tried are 1..MaxBatchSize.
MaxBatchSize == 2
\* The batch limits (max_batches, the session limit) tried are 1..MaxBatches.
MaxBatches == 2
\* Process invocations against one sink.
MaxRuns == 2
\* Calls of map_regions in one run of the classifier alone.
MaxCalls == 2

\* Rows the cities table may hold before the first run against it.
MaxStored == 2

\* -------------------------------------------------------- program constants

\* The population threshold of the row filter.
MinPopulation == 1000

\* The scripts print a progress line every 10 batches; the interval is kept
\* small here so that a run of a few batches prints one.
ProgressInterval == 2

\* The driver scripts modelled.
Variants ==
  {"batch_import_cities", "complete_import", "comprehensive_import",
   "continue_next_batches"}

\* ------------------------------------------------------------- cell values

Absent == [some |-> FALSE, v |-> 0]

Some(x) == [some |-> TRUE, v |-> x]

\* A blank cell (NaN after read_excel).
NA == [t |-> "na", n |-> 0, s |-> <<>>]

\* A numeric cell holding n hundredths.
Num(n) == [t |-> "num", n |-> n, s |-> <<>>]

\* A text cell.
Str(s) == [t |-> "str", n |-> 0, s |-> s]

notna(cell) == cell.t # "na"

\* ----------------------------------------------------------------- strings

RECURSIVE lstrip(_)
lstrip(s) == IF s # <<>> /\ Head(s) = " " THEN lstrip(Tail(s)) ELSE s

RECURSIVE rstrip(_)
rstrip(s) ==
  IF s # <<>> /\ s[Len(s)] = " " THEN rstrip(SubSeq(s, 1, Len(s) - 1)) ELSE s

strip(s) == rstrip(lstrip(s))

\* float('inf'): larger than every other float of the model.
Infinity == 1000000000

\* The text of a numeric literal and the float it denotes, in hundredths.
NumLit ==
  [lit \in {"39.78", "-89.65", "39.0", "-88.0", "95.5", "200.0", "inf"} |->
     CASE lit = "39.78" -> 3978
       [] lit = "-89.65" -> -8965
       [] lit = "39.0" -> 3900
       [] lit = "-88.0" -> -8800
       [] lit = "95.5" -> 9550
       [] lit = "200.0" -> 20000
       [] lit = "inf" -> Infinity]

\* float(s) of a string: surrounding whitespace is ignored, the rest must be
\* one numeric literal; anything else raises ValueError.
float_str(s) ==
  LET t == strip(s)
  IN  IF Len(t) = 1 /\ t[1] \in DOMAIN NumLit
        THEN [ok |-> TRUE, v |-> NumLit[t[1]]]
        ELSE [ok |-> FALSE, v |-> 0]

\* float(cell) of a cell that is not blank.
float_cell(cell) ==
  IF cell.t = "num" THEN [ok |-> TRUE, v |-> cell.n] ELSE float_str(cell.s)

\* int(x) of a float: truncation toward zero.
int_of(x) == IF x >= 0 THEN x \div 100 ELSE -((-x) \div 100)

\* str(cell) of a cell that is not blank.
str_cell(cell) == IF cell.t = "str" THEN cell.s ELSE <<"<number>">>

\* coords.split(',', 1): the text before and after the first comma.
split_first(s) ==
  LET k == CHOOSE j \in DOMAIN s : s[j] = "," /\ \A h \in 1..(j - 1) : s[h] # ","
  IN  [left |-> SubSeq(s, 1, k - 1), right |-> SubSeq(s, k + 1, Len(s))]

has_comma(s) == \E j \in DOMAIN s : s[j] = ","

\* ------------------------------------------------------------- map_regions

\* Every script with a map_regions of its own.
Scripts ==
  Variants \cup
    {"import_cities", "continue_import", "next_batch_set", "massive_import",
     "final_batches", "final_push", "power_import", "small_batch_import"}

\* The scripts whose table has the key 'Turkey'.
TurkeyScripts ==
  {"batch_import_cities", "complete_import", "continue_next_batches",
   "next_batch_set"}

\* The scripts whose table has the key 'Russian Federation'.
RussianFederationScripts ==
  {"complete_import", "comprehensive_import", "continue_import",
   "continue_next_batches", "next_batch_set"}

\* region_mapping of a script: the entries of its dict for the countries
\* United States, Japan, Turkey and Russian Federation.
region_mapping(script) ==
  [country \in
     {<<"United States">>, <<"Japan">>}
       \cup (IF script \in TurkeyScripts THEN {<<"Turkey">>} ELSE {})
       \cup (IF script \in RussianFederationScripts
               THEN {<<"Russian Federation">>} ELSE {}) |->
     CASE country = <<"United States">> -> "North America"
       [] country = <<"Japan">> ->
            IF script = "power_import" THEN "Japan" ELSE "Asia"
       [] country = <<"Turkey">> -> "Asia"
       [] country = <<"Russian Federation">> -> "Europe"]

\* str.lower() of the countries of the model, the other way round: the
\* key a lower-case spelling names.
capitalized(country) ==
  IF country = <<"united states">> THEN <<"United States">> ELSE country

\* Mutant of map_regions: a lookup that ignores case.
map_regions_nocase(variant, country) ==
  IF capitalized(country) \in DOMAIN region_mapping(variant)
    THEN region_mapping(variant)[capitalized(country)]
    ELSE "Other"

\* region_mapping.get(country, 'Other').
map_regions(variant, country) ==
  IF country \in DOMAIN region_mapping(variant)
    THEN region_mapping(variant)[country]
    ELSE "Other"

\* --------------------------------------------------------- row transformation

\* The name and country of a row: stripped text, or None for a blank cell.
text_field(cell) == IF notna(cell) THEN Some(strip(str_cell(cell))) ELSE Absent

\* "not city_name": None or the empty string.
falsy_text(f) == ~f.some \/ f.v = <<>>

\* population = int(float(row['Population'])).  parsed: "ok" with the value,
\* "error" when float() raised ValueError, "overflow" when int() raised
\* OverflowError on an infinite float.
parse_population(cell) ==
  LET f == float_cell(cell)
  IN  IF ~f.ok THEN [parsed |-> "error", v |-> 0]
      ELSE IF f.v = Infinity THEN [parsed |-> "overflow", v |-> 0]
      ELSE [parsed |-> "ok", v |-> int_of(f.v)]

\* The coordinates of batch-import-cities: any failure resets both to None.
parse_coordinates_batch(cell) ==
  IF ~notna(cell) THEN [lat |-> Absent, lng |-> Absent]
  ELSE LET coords == strip(str_cell(cell))
       IN  IF ~has_comma(coords) THEN [lat |-> Absent, lng |-> Absent]
           ELSE LET p == split_first(coords)
                    la == float_str(p.left)
                    lo == float_str(p.right)
                IN  IF la.ok /\ lo.ok
                      THEN [lat |-> Some(la.v), lng |-> Some(lo.v)]
                      ELSE [lat |-> Absent, lng |-> Absent]

\* The coordinates of the other scripts: latitude = longitude = None first,
\* then the two assignments in turn, and "except: pass".
parse_coordinates_pass(cell) ==
  IF ~notna(cell) THEN [lat |-> Absent, lng |-> Absent]
  ELSE LET coords == strip(str_cell(cell))
       IN  IF ~has_comma(coords) THEN [lat |-> Absent, lng |-> Absent]
           ELSE LET p == split_first(coords)
                    la == float_str(p.left)
                    lo == float_str(p.right)
                IN  IF ~la.ok THEN [lat |-> Absent, lng |-> Absent]
                    ELSE IF ~lo.ok THEN [lat |-> Some(la.v), lng |-> Absent]
                    ELSE [lat |-> Some(la.v), lng |-> Some(lo.v)]

\* Mutant of city_tuple: the last element of the tuple is True.
city_tuple_capital(variant, name, country, population, c) ==
  [name |-> name, country |-> country, region |-> map_regions(variant, country),
   population |-> population, latitude |-> c.lat, longitude |-> c.lng,
   timezone |-> Absent, is_capital |-> TRUE]

\* The tuple appended to cities_data.
city_tuple(variant, name, country, population, c) ==
  [name |-> name, country |-> country, region |-> map_regions(variant, country),
   population |-> population, latitude |-> c.lat, longitude |-> c.lng,
   timezone |-> Absent, is_capital |-> FALSE]

NoTuple == city_tuple("", <<>>, <<>>, Absent, [lat |-> Absent, lng |-> Absent])

\* Mutant of small_city_batch: no population filter.
small_city_batch_never(population) == FALSE

\* "if population and population < 1000": 0 and None are falsy.
small_city_batch(population) ==
  population.some /\ population.v # 0 /\ population.v < MinPopulation

\* One row of process_batch of batch-import-cities.
process_row_batch(row) ==
  LET name == text_field(row.Name)
      country == text_field(row.Country)
      p == IF notna(row.Population) THEN parse_population(row.Population)
           ELSE [parsed |-> "error", v |-> 0]
      population == IF p.parsed = "ok" THEN Some(p.v) ELSE Absent
      c == parse_coordinates_batch(row.Coordinates)
  IN  IF p.parsed = "overflow"
        \* not a ValueError or TypeError: "except Exception" of the row
        THEN [kept |-> FALSE, skipped |-> 1, tuple |-> NoTuple]
      ELSE IF falsy_text(name) \/ falsy_text(country)
        THEN [kept |-> FALSE, skipped |-> 1, tuple |-> NoTuple]
      ELSE IF small_city_batch(population)
        THEN [kept |-> FALSE, skipped |-> 1, tuple |-> NoTuple]
      ELSE [kept |-> TRUE, skipped |-> 0,
            tuple |-> city_tuple("batch_import_cities", name.v, country.v,
                                 population, c)]

\* "if population < 1000: continue" of the other scripts.
small_city(population) == population < MinPopulation

\* One row of the loop body of the other scripts.  on_error is what the
\* bare "except:" of the script does when int(float(...)) raises: "pass"
\* keeps the row with no population, "continue" drops it.
process_row_inline(variant, on_error, row) ==
  LET name == text_field(row.Name)
      country == text_field(row.Country)
      p == parse_population(row.Population)
      c == parse_coordinates_pass(row.Coordinates)
      drop == [kept |-> FALSE, skipped |-> 0, tuple |-> NoTuple]
      keep(population) ==
        [kept |-> TRUE, skipped |-> 0,
         tuple |-> city_tuple(variant, name.v, country.v, population, c)]
  IN  IF falsy_text(name) \/ falsy_text(country) THEN drop
      ELSE IF ~notna(row.Population) THEN keep(Absent)
      ELSE IF p.parsed = "ok"
        THEN IF small_city(p.v) THEN drop ELSE keep(Some(p.v))
      ELSE IF on_error = "pass" THEN keep(Absent)
      ELSE drop

\* The scripts whose loop is "for batch in range(max_batches)" over the rows
\* from start_row on; their bare "except:" around int(float(...)) drops the
\* row.
BatchRangeScripts ==
  {"comprehensive_import", "small_batch_import", "final_batches"}

\* What a script does when the population cannot be parsed.
on_population_error(variant) ==
  IF variant \in BatchRangeScripts THEN "continue" ELSE "pass"

\* One row of the script's loop body.
process_row(variant, row) ==
  IF variant = "batch_import_cities" THEN process_row_batch(row)
  ELSE process_row_inline(variant, on_population_error(variant), row)

\* ------------------------------------------------------------ source table

\* The raw rows the source table is drawn from: the columns Name,
\* Country name EN, Population and Coordinates of one row each.
RowPool ==
  << [Name |-> Str(<<"Springfield">>), Country |-> Str(<<"United States">>),
      Population |-> Num(150000),
      Coordinates |-> Str(<<"39.78", ",", "-89.65">>)],
     [Name |-> Str(<<"Smallville">>), Country |-> Str(<<"United States">>),
      Population |-> Num(99990),
      Coordinates |-> Str(<<"39.0", ",", "-88.0">>)],
     [Name |-> Str(<<"Unknown City">>), Country |-> Str(<<"Nowhereland">>),
      Population |-> Num(100000), Coordinates |-> NA],
     [Name |-> Str(<<"Zeroville">>), Country |-> Str(<<"Turkey">>),
      Population |-> Num(0),
      Coordinates |-> Str(<<" ", "39.0", " ", ",", " ", "-88.0", " ">>)],
     [Name |-> Str(<<" ", " ">>), Country |-> Str(<<"United States">>),
      Population |-> Num(500000),
      Coordinates |-> Str(<<"39.78", ",", "-89.65">>)],
     [Name |-> Str(<<" ", "Nopop">>), Country |-> Str(<<"Russian Federation">>),
      Population |-> NA,
      Coordinates |-> Str(<<"95.5", ",", "200.0">>)],
     [Name |-> Str(<<"Badpop">>), Country |-> Str(<<"United States">>),
      Population |-> Str(<<"abc">>),
      Coordinates |-> Str(<<"39.78", ",", "-89.65", ",", "12">>)],
     [Name |-> Str(<<"Hugepop">>), Country |-> Str(<<"Turkey">>),
      Population |-> Str(<<"inf">>), Coordinates |-> Str(<<"39.0">>)] >>

\* The source tables tried: SrcLen consecutive rows of RowPool, from each
\* of its rows on and around its end.
Sources ==
  { [k \in 1..SrcLen |-> RowPool[((first + k - 2) % Len(RowPool)) + 1]] :
      first \in 1..Len(RowPool) }

Min(a, b) == IF a <= b THEN a ELSE b

\* ------------------------------------------------------------------- state

VARIABLES
  source,           \* df: the source table
  variant,          \* the script run against the sink
  batch_size,       \* batch_size
  start_row,        \* start_row / start_idx of this run
  max_batches,      \* max_batches, or the session's batch limit
  run,              \* the number of this process invocation
  state,            \* "Idle", "Running", "Completed", "Aborted"
  pc,               \* where a Running script stands: "loop", "commit", "final"
  i,                \* the offset of the chunk the loop is at
  batch_num,        \* batch_num: 1 + the chunks this run has been through
  cities_data,      \* cities_data: the tuples of the chunk being loaded
  cities,           \* the committed rows of the cities table
  pending,          \* the rows inserted by the open transaction
  cities_id_seq,    \* the SERIAL sequence behind cities.id
  total_processed,  \* total_processed
  total_inserted,   \* total_inserted / total_added
  total_skipped,    \* total_skipped
  inserted_count,   \* the count the last load printed as inserted
  report,           \* what the script printed when it ended
  prev              \* the caller's notes of the previous invocation

vars ==
  <<source, variant, batch_size, start_row, max_batches, run, state, pc, i,
    batch_num, cities_data, cities, pending, cities_id_seq, total_processed,
    total_inserted, total_skipped, inserted_count, report, prev>>

\* --------------------------------------------------------------- the sink

\* Mutant of unique_conflict: a uniqueness constraint over the content of a
\* row, under which ON CONFLICT DO NOTHING skips a row already stored.
unique_conflict_content(table, row) ==
  \E k \in DOMAIN table : table[k].id = row.id \/ table[k].t = row.t

\* Mutant of unique_conflict: a table with no uniqueness constraint at all.
unique_conflict_never(table, row) == FALSE

\* The uniqueness constraints of CREATE TABLE cities: the primary key on the
\* SERIAL id and nothing else.  An insert conflicts with a row of the table
\* that has the same key.
unique_conflict(table, row) ==
  \E k \in DOMAIN table : table[k].id = row.id

\* INSERT INTO cities (name, ..., is_capital) VALUES (...) ON CONFLICT DO
\* NOTHING of one tuple, inside the open transaction: the id comes from the
\* sequence; a conflicting row is skipped.  tx is the rows this transaction
\* has inserted, visible the rows it sees.
insert_on_conflict_do_nothing(visible, tx, id, d) ==
  LET row == [id |-> id, t |-> d.tuple, src |-> d.src, run |-> d.run]
  IN  IF unique_conflict(visible, row) THEN tx ELSE Append(tx, row)

\* cursor.executemany(insert_sql, data) up to its n-th tuple: the rows the
\* transaction holds afterwards.
RECURSIVE executemany(_, _, _, _, _)
executemany(committed, tx, seq, data, n) ==
  IF n = 0 THEN tx
  ELSE LET before == executemany(committed, tx, seq, data, n - 1)
       IN  insert_on_conflict_do_nothing(committed \o before, before,
                                         seq + n - 1, data[n])

\* Mutant of commit: the table is rewritten with the rows of the
\* transaction alone.
commit_replace(committed, tx) == tx

\* Mutant of commit: the rows of the transaction land before the rows
\* committed earlier.
commit_before(committed, tx) == tx \o committed

\* conn.commit(): the rows of the transaction become rows of the table.
commit(committed, tx) == committed \o tx

\* Mutant of rollback: a connection in autocommit mode, whose inserted rows
\* stay when the script dies.
rollback_keeps(committed, tx) == committed \o tx

\* The connection is dropped without a commit (the script exits on the
\* exception): the server rolls the transaction back.
rollback(committed, tx) == committed

\* DELETE FROM cities WHERE population > 0, committed: the startup of
\* batch-import-cities.  A NULL population is not > 0.
delete_test_data(table) ==
  SelectSeq(table, LAMBDA r : ~(r.t.population.some /\ r.t.population.v > 0))

\* ------------------------------------------------------------ chunk handling

\* df.iloc[offset : offset + size]: the offsets (0-based) of the chunk's rows.
chunk_offsets(src, offset, size) ==
  { k \in offset..(offset + size - 1) : k < Len(src) }

\* One iteration of the loop over chunk.iterrows(): cities_data, processed
\* and skipped after the row at offset k, whose outcome is one.
process_next_row(before, one, k, r) ==
  IF one.kept
    THEN [cities_data |->
            Append(before.cities_data,
                   [tuple |-> one.tuple, src |-> k, run |-> r]),
          processed |-> before.processed + 1,
          skipped |-> before.skipped]
    ELSE [cities_data |-> before.cities_data,
          processed |-> before.processed,
          skipped |-> before.skipped + one.skipped]

\* The loop over chunk.iterrows(): cities_data, processed and skipped after
\* the rows at offsets offset .. upto - 1.  The rows before and the outcome
\* of the row are each computed once and then combined.
RECURSIVE process_rows(_, _, _, _, _)
process_rows(v, src, r, offset, upto) ==
  IF upto <= offset
    THEN [cities_data |-> <<>>, processed |-> 0, skipped |-> 0]
  ELSE CHOOSE after \in
         { process_next_row(before, one, upto - 1, r) :
             before \in {process_rows(v, src, r, offset, upto - 1)},
             one \in {process_row(v, src[upto])} } : TRUE

\* Mutant of process_chunk: the slice df.iloc[offset : offset + size + 1].
process_chunk_long(v, src, r, offset, size) ==
  process_rows(v, src, r, offset, Min(offset + size + 1, Len(src)))

\* Mutant of process_chunk: the slice df.iloc[offset : offset + size - 1].
process_chunk_short(v, src, r, offset, size) ==
  process_rows(v, src, r, offset, Min(offset + size - 1, Len(src)))

\* The transformation of the chunk at offset.
process_chunk(v, src, r, offset, size) ==
  process_rows(v, src, r, offset, Min(offset + size, Len(src)))

\* ------------------------------------------------------------- loop control

\* Scripts whose loop is "for i in range(start, len(df), batch_size)" with a
\* break once batch_num exceeds the session's batch limit.
LimitVariants == {"batch_import_cities", "complete_import"}

\* end_row = min(start_row + n * batch_size, len(df)) of
\* continue-next-batches; the row count the other scripts name when done.
end_row_of(src, start, n, size) == Min(start + n * size, Len(src))

\* Whether the loop has another iteration, at its head.
loop_continues(v, src, start, n, size, offset, bnum) ==
  CASE v \in LimitVariants -> offset < Len(src)
    [] v \in BatchRangeScripts -> bnum - 1 < n /\ offset < Len(src)
    [] OTHER -> offset < end_row_of(src, start, n, size)

\* Mutant of limit_reached: "if batch_num > limit + 1: break".
limit_reached_late(v, bnum, n) == v \in LimitVariants /\ bnum > n + 1

\* Mutant of limit_reached: "if batch_num >= limit: break".
limit_reached_early(v, bnum, n) == v \in LimitVariants /\ bnum >= n

\* "if batch_num > limit: break", after batch_num += 1.
limit_reached(v, bnum, n) == v \in LimitVariants /\ bnum > n

\* The first offset of a run: batch-import-cities always starts at row 0.
StartRows(v) == IF v = "batch_import_cities" THEN {0} ELSE 0..(SrcLen - 1)

\* ------------------------------------------------------------------ actions

NoReport ==
  [kind |-> "none", error |-> "none", processed |-> Absent,
   inserted |-> Absent, skipped |-> Absent, cities |-> Absent,
   progress_rows |-> Absent, batches_completed |-> Absent]

\* "Error: ..." (or the traceback) of a script that dies on an exception of
\* the database driver.
ErrorReport == [NoReport EXCEPT !.kind = "error", !.error = "database"]

\* "Error: cannot convert float infinity to integer".
OverflowErrorReport ==
  [NoReport EXCEPT !.kind = "error", !.error = "OverflowError"]

\* The final statistics each script prints after its loop.
final_statistics(v) ==
  CASE v = "batch_import_cities" ->
         [NoReport EXCEPT !.kind = "statistics",
                          !.processed = Some(total_processed),
                          !.skipped = Some(total_skipped),
                          !.cities = Some(Len(cities))]
    [] v = "complete_import" ->
         [NoReport EXCEPT !.kind = "statistics",
                          !.processed = Some(total_processed),
                          !.inserted = Some(total_inserted),
                          !.cities = Some(Len(cities))]
    [] v = "continue_import" ->
         [NoReport EXCEPT !.kind = "statistics",
                          !.cities = Some(Len(cities))]
    [] OTHER ->
         [NoReport EXCEPT !.kind = "statistics",
                          !.inserted = Some(total_inserted),
                          !.cities = Some(Len(cities)),
                          !.progress_rows =
                            Some(end_row_of(source, start_row, max_batches,
                                            batch_size))]

\* Nothing ran before the first invocation.
NoRun == [state |-> "none", start_row |-> 0, max_batches |-> 0, offset |-> 0]

Init ==
  /\ source \in Sources
  /\ variant \in Variants
  /\ batch_size \in 1..MaxBatchSize
  /\ start_row \in StartRows(variant)
  /\ max_batches \in 1..MaxBatches
  /\ run = 1
  /\ state = "Idle"
  /\ pc = "loop"
  /\ i = 0
  /\ batch_num = 1
  /\ cities_data = <<>>
  /\ cities = <<>>
  /\ pending = <<>>
  /\ cities_id_seq = 1
  /\ total_processed = 0
  /\ total_inserted = 0
  /\ total_skipped = 0
  /\ inserted_count = 0
  /\ report = NoReport
  /\ prev = NoRun

\* The script is started again (the same script, with the start row and the
\* batch limit edited): a new process against the same sink.
Invoke ==
  /\ state \in {"Completed", "Aborted"}
  /\ run < MaxRuns
  /\ \E s \in StartRows(variant), n \in 1..MaxBatches :
       /\ start_row' = s
       /\ max_batches' = n
  /\ run' = run + 1
  /\ state' = "Idle"
  /\ pc' = "loop"
  /\ i' = 0
  /\ batch_num' = 1
  /\ cities_data' = <<>>
  /\ total_processed' = 0
  /\ total_inserted' = 0
  /\ total_skipped' = 0
  /\ inserted_count' = 0
  /\ report' = NoReport
  /\ prev' = [state |-> state, start_row |-> start_row,
              max_batches |-> max_batches, offset |-> i]
  /\ UNCHANGED <<source, variant, batch_size, cities, pending, cities_id_seq>>

\* The script's startup, up to the head of its loop: the source is read,
\* the sink connected; batch-import-cities clears the rows with a
\* population > 0 and commits.
StartRun ==
  /\ state = "Idle"
  /\ report = NoReport
  /\ state' = "Running"
  /\ pc' = "loop"
  /\ i' = start_row
  /\ cities' = IF variant = "batch_import_cities"
                 THEN delete_test_data(cities) ELSE cities
  /\ UNCHANGED <<source, variant, batch_size, start_row, max_batches, run,
                 batch_num, cities_data, pending, cities_id_seq,
                 total_processed, total_inserted, total_skipped,
                 inserted_count, report, prev>>

\* The defects of the configuration a script can start with: the source
\* file is missing, DATABASE_URL is not set, the source file is there but
\* read_excel cannot read it.
ConfigurationDefects == {"file not found", "DATABASE_URL", "unreadable file"}

\* What the script prints when it dies in its startup.
ConfigurationErrorReport(defect) ==
  [NoReport EXCEPT !.kind = "error", !.error = defect]

\* The statements of the startup that have run when the defect ends the
\* process.  batch-import-cities tests os.path.exists, connects, deletes
\* and commits, and only then calls read_excel; the other scripts call
\* read_excel first and connect after it.
startup_deletes(v, defect) ==
  v = "batch_import_cities" /\ defect = "unreadable file"

\* The script dies in its startup, before its loop: the run never starts.
ConfigurationDefect ==
  /\ state = "Idle"
  /\ report = NoReport
  /\ \E defect \in ConfigurationDefects :
       /\ report' = ConfigurationErrorReport(defect)
       /\ cities' = IF startup_deletes(variant, defect)
                      THEN delete_test_data(cities) ELSE cities
  /\ UNCHANGED <<source, variant, batch_size, start_row, max_batches, run,
                 state, pc, i, batch_num, cities_data, pending,
                 cities_id_seq, total_processed, total_inserted,
                 total_skipped, inserted_count, prev>>

AtLoopHead ==
  /\ state = "Running"
  /\ pc = "loop"
  /\ loop_continues(variant, source, start_row, max_batches, batch_size, i,
                    batch_num)

\* The transformation of the chunk the loop is at.
ChunkResult == process_chunk(variant, source, run, i, batch_size)

\* Mutant of next_offset: one source row is stepped over between two chunks.
next_offset_skip(offset, size) == offset + size + 1

\* The offset of the next chunk: the next value of
\* range(start_row, end_row, batch_size).
next_offset(offset, size) == offset + size

\* "Progress update every 10 batches": the test the script makes on batch_num
\* once it has incremented it.  complete-import counts from 1 and tests
\* batch_num % 10; continue-next-batches counts from 11 and tests
\* (batch_num - 11) % 10, which in the numbering from 1 kept here is
\* (batch_num - 1) % 10.  The other scripts print no progress line.
progress_due(v, incremented) ==
  CASE v = "complete_import" -> incremented % ProgressInterval = 0
    [] v = "continue_next_batches" -> (incremented - 1) % ProgressInterval = 0
    [] OTHER -> FALSE

\* The number the progress line gives as "batches completed".
progress_batches(v, incremented) ==
  IF v = "complete_import" THEN incremented ELSE incremented - 1

\* "Progress: N batches completed, T total cities", T counted in the table.
progress_report(v, incremented, table) ==
  [NoReport EXCEPT !.kind = "progress",
                   !.batches_completed = Some(progress_batches(v, incremented)),
                   !.cities = Some(Len(table))]

\* The end of a loop iteration: the run's counters, batch_num += 1, the
\* progress line, the next offset, and the break at the batch limit.
LoopTail ==
  /\ total_processed' =
       IF variant \in LimitVariants
         THEN total_processed + ChunkResult.processed ELSE total_processed
  /\ total_skipped' =
       IF variant = "batch_import_cities"
         THEN total_skipped + ChunkResult.skipped ELSE total_skipped
  /\ batch_num' = batch_num + 1
  /\ report' = IF progress_due(variant, batch_num + 1)
                 THEN progress_report(variant, batch_num + 1, cities')
                 ELSE report
  /\ i' = next_offset(i, batch_size)
  /\ pc' = IF limit_reached(variant, batch_num + 1, max_batches)
             THEN "final" ELSE "loop"

\* Mutant of nonempty: the guard "if cities_data:" left out.
nonempty_always(data) == TRUE

\* "if cities_data:": the truth value of a list.
nonempty(data) == data # <<>>

\* A chunk with no tuple left ("if cities_data:" is false): no insert, no
\* commit.
SkipEmptyBatch ==
  /\ AtLoopHead
  /\ ~nonempty(ChunkResult.cities_data)
  /\ cities_data' = <<>>
  /\ UNCHANGED <<source, variant, batch_size, start_row, max_batches, run,
                 state, cities, pending, cities_id_seq, total_inserted,
                 inserted_count, prev>>
  /\ LoopTail

\* The chunk is read and transformed and cursor.executemany inserts its
\* tuples in the open transaction.
ExecuteMany ==
  /\ AtLoopHead
  /\ \E data \in {ChunkResult.cities_data} :
       /\ nonempty(data)
       /\ cities_data' = data
       /\ pending' = executemany(cities, pending, cities_id_seq, data,
                                 Len(data))
       /\ cities_id_seq' = cities_id_seq + Len(data)
  /\ pc' = "commit"
  /\ UNCHANGED <<source, variant, batch_size, start_row, max_batches, run,
                 state, i, batch_num, cities, total_processed, total_inserted,
                 total_skipped, inserted_count, report, prev>>

\* Mutant of Abort: the exception is caught inside the loop, the error is
\* printed and the loop goes on.
abort_continues(tx) ==
  /\ cities' = rollback(cities, tx)
  /\ pending' = <<>>
  /\ state' = "Running"
  /\ report' = ErrorReport

\* The exception leaves the loop and ends the process: nothing is committed,
\* the transaction is rolled back, and the script prints the error.
Abort(tx) ==
  /\ cities' = rollback(cities, tx)
  /\ pending' = <<>>
  /\ state' = "Aborted"
  /\ report' = ErrorReport

\* cursor.executemany raises (the connection is lost, the sink refuses a
\* row) after it has inserted the first n tuples.
ExecuteManyFails ==
  /\ AtLoopHead
  /\ \E data \in {ChunkResult.cities_data} :
       /\ nonempty(data)
       /\ \E n \in 0..(Len(data) - 1) :
            /\ cities_id_seq' = cities_id_seq + n
            /\ Abort(executemany(cities, pending, cities_id_seq, data, n))
       /\ cities_data' = data
  /\ UNCHANGED <<source, variant, batch_size, start_row, max_batches, run,
                 pc, i, batch_num, total_processed, total_inserted,
                 total_skipped, inserted_count, prev>>

\* conn.commit() returns; the script prints and counts len(cities_data) as
\* inserted and ends the iteration.
Commit ==
  /\ state = "Running"
  /\ pc = "commit"
  /\ cities' = commit(cities, pending)
  /\ pending' = <<>>
  /\ inserted_count' = Len(cities_data)
  /\ total_inserted' =
       IF variant = "batch_import_cities"
         THEN total_inserted ELSE total_inserted + Len(cities_data)
  /\ LoopTail
  /\ UNCHANGED <<source, variant, batch_size, start_row, max_batches, run,
                 state, cities_data, cities_id_seq, prev>>

\* conn.commit() raises.
CommitFails ==
  /\ state = "Running"
  /\ pc = "commit"
  /\ Abort(pending)
  /\ UNCHANGED <<source, variant, batch_size, start_row, max_batches, run,
                 pc, i, batch_num, cities_data, cities_id_seq,
                 total_processed, total_inserted, total_skipped,
                 inserted_count, prev>>

\* The loop is over (its range is exhausted, or it broke at the batch limit
\* or at the end of the source): the final statistics are printed.
Finish ==
  /\ state = "Running"
  /\ \/ pc = "final"
     \/ /\ pc = "loop"
        /\ ~loop_continues(variant, source, start_row, max_batches,
                           batch_size, i, batch_num)
  /\ state' = "Completed"
  /\ report' = final_statistics(variant)
  /\ UNCHANGED <<source, variant, batch_size, start_row, max_batches, run,
                 pc, i, batch_num, cities_data, cities, pending,
                 cities_id_seq, total_processed, total_inserted,
                 total_skipped, inserted_count, prev>>

Next ==
  \/ Invoke
  \/ StartRun
  \/ ConfigurationDefect
  \/ SkipEmptyBatch
  \/ ExecuteMany
  \/ ExecuteManyFails
  \/ Commit
  \/ CommitFails
  \/ Finish

Spec == Init /\ [][Next]_vars

\* --------------------------------------------------------- a three-row source

\* A source of three rows: a city with coordinates, a city below the
\* population threshold, and a city of an unknown country with a blank
\* Coordinates cell.
ScenarioSource ==
  << [Name |-> Str(<<"Springfield">>), Country |-> Str(<<"United States">>),
      Population |-> Num(150000),
      Coordinates |-> Str(<<"39.78", ",", "-89.65">>)],
     [Name |-> Str(<<"Smallville">>), Country |-> Str(<<"United States">>),
      Population |-> Num(20000),
      Coordinates |-> Str(<<"39.0", ",", "-88.0">>)],
     [Name |-> Str(<<"Unknown City">>), Country |-> Str(<<"Nowhereland">>),
      Population |-> Num(500000), Coordinates |-> NA] >>

InitScenario ==
  /\ source = ScenarioSource
  /\ variant \in Variants
  /\ batch_size \in 1..MaxBatchSize
  /\ start_row \in StartRows(variant)
  /\ max_batches \in 1..MaxBatches
  /\ run = 1
  /\ state = "Idle"
  /\ pc = "loop"
  /\ i = 0
  /\ batch_num = 1
  /\ cities_data = <<>>
  /\ cities = <<>>
  /\ pending = <<>>
  /\ cities_id_seq = 1
  /\ total_processed = 0
  /\ total_inserted = 0
  /\ total_skipped = 0
  /\ inserted_count = 0
  /\ report = NoReport
  /\ prev = NoRun

SpecScenario == InitScenario /\ [][Next]_vars

\* ------------------------------------------------------------ import-cities

\* str(x) of any cell: a blank cell prints as 'nan'.
str_any(cell) == IF notna(cell) THEN str_cell(cell) ELSE <<"nan">>

\* One row of the loop of import_cities_data.  The frame has the columns
\* Name, Country name EN, Population and Coordinates, in this order:
\* row.get finds 'Name' and 'Population', none of its keys for the country,
\* the latitude or the longitude; the country falls back to
\* str(row.iloc[1]).  raised: int() raised OverflowError, which
\* "except (ValueError, TypeError)" does not catch.
process_row_import(row) ==
  LET city_name == row.Name
      country == Str(str_any(row.Country))
      p == parse_population(row.Population)
      population ==
        IF notna(row.Population) /\ p.parsed = "ok" THEN Some(p.v) ELSE Absent
      none == [lat |-> Absent, lng |-> Absent]
  IN  IF ~notna(city_name) \/ ~notna(country)
        THEN [kept |-> FALSE, raised |-> FALSE, tuple |-> NoTuple]
      ELSE IF notna(row.Population) /\ p.parsed = "overflow"
        THEN [kept |-> FALSE, raised |-> TRUE, tuple |-> NoTuple]
      ELSE [kept |-> TRUE, raised |-> FALSE,
            tuple |-> city_tuple("import_cities", strip(str_cell(city_name)),
                                 strip(str_cell(country)), population, none)]

\* The loop over df.iterrows() up to row upto: cities_data, and whether a
\* row raised (the loop ends there).
RECURSIVE import_rows(_, _, _)
import_rows(src, r, upto) ==
  IF upto = 0 THEN [cities_data |-> <<>>, raised |-> FALSE]
  ELSE LET before == import_rows(src, r, upto - 1)
           one == process_row_import(src[upto])
       IN  IF before.raised THEN before
           ELSE IF one.raised THEN [before EXCEPT !.raised = TRUE]
           ELSE IF one.kept
             THEN [before EXCEPT !.cities_data =
                     Append(@, [tuple |-> one.tuple, src |-> upto - 1,
                                run |-> r])]
           ELSE before

\* Mutant of delete_all: the rows stored before stay in the table.
delete_all_keeps(table) == table

\* DELETE FROM cities, inside the open transaction.
delete_all(table) == <<>>

\* INSERT INTO cities (...) VALUES (...) of one tuple, with no ON CONFLICT
\* clause: the id comes from the sequence.
insert(tx, id, d) ==
  Append(tx, [id |-> id, t |-> d.tuple, src |-> d.src, run |-> d.run])

\* cursor.executemany(insert_sql, cities_data) of import_cities_data, up to
\* its n-th tuple.
RECURSIVE executemany_insert(_, _, _, _)
executemany_insert(tx, seq, data, n) ==
  IF n = 0 THEN tx
  ELSE insert(executemany_insert(tx, seq, data, n - 1), seq + n - 1, data[n])

InitImportCities ==
  /\ source \in Sources
  /\ variant = "import_cities"
  /\ batch_size = SrcLen
  /\ start_row = 0
  /\ max_batches = 1
  /\ run = 1
  /\ state = "Idle"
  /\ pc = "loop"
  /\ i = 0
  /\ batch_num = 1
  /\ cities_data = <<>>
  /\ cities = <<>>
  /\ pending = <<>>
  /\ cities_id_seq = 1
  /\ total_processed = 0
  /\ total_inserted = 0
  /\ total_skipped = 0
  /\ inserted_count = 0
  /\ report = NoReport
  /\ prev = NoRun

\* import-cities is started again.
ImportInvoke ==
  /\ state \in {"Completed", "Aborted"}
  /\ run < MaxRuns
  /\ run' = run + 1
  /\ state' = "Idle"
  /\ pc' = "loop"
  /\ i' = 0
  /\ cities_data' = <<>>
  /\ inserted_count' = 0
  /\ report' = NoReport
  /\ prev' = [state |-> state, start_row |-> start_row,
              max_batches |-> max_batches, offset |-> i]
  /\ UNCHANGED <<source, variant, batch_size, start_row, max_batches,
                 batch_num, cities, pending, cities_id_seq, total_processed,
                 total_inserted, total_skipped>>

\* main up to the call of import_cities_data: the file is read, the sink
\* connected, CREATE TABLE IF NOT EXISTS committed.
ImportStart ==
  /\ state = "Idle"
  /\ state' = "Running"
  /\ UNCHANGED <<source, variant, batch_size, start_row, max_batches, run,
                 pc, i, batch_num, cities_data, cities, pending,
                 cities_id_seq, total_processed, total_inserted,
                 total_skipped, inserted_count, report, prev>>

\* The rows of the whole frame, transformed.
ImportResult == import_rows(source, run, Len(source))

\* import_cities_data up to its commit: DELETE FROM cities, the loop over
\* the rows, executemany; all in the open transaction.
ImportCitiesData ==
  /\ state = "Running"
  /\ pc = "loop"
  /\ ~ImportResult.raised
  /\ cities_data' = ImportResult.cities_data
  /\ pending' = executemany_insert(pending, cities_id_seq,
                                   ImportResult.cities_data,
                                   Len(ImportResult.cities_data))
  /\ cities_id_seq' = cities_id_seq + Len(ImportResult.cities_data)
  /\ pc' = "commit"
  /\ UNCHANGED <<source, variant, batch_size, start_row, max_batches, run,
                 state, i, batch_num, cities, total_processed, total_inserted,
                 total_skipped, inserted_count, report, prev>>

\* A row of the loop raises: the exception leaves import_cities_data, main
\* prints it and exits; the DELETE is rolled back with the connection.
ImportRowRaises ==
  /\ state = "Running"
  /\ pc = "loop"
  /\ ImportResult.raised
  /\ cities' = rollback(cities, pending)
  /\ pending' = <<>>
  /\ state' = "Aborted"
  /\ report' = OverflowErrorReport
  /\ UNCHANGED <<source, variant, batch_size, start_row, max_batches, run,
                 pc, i, batch_num, cities_data, cities_id_seq,
                 total_processed, total_inserted, total_skipped,
                 inserted_count, prev>>

\* The DELETE or executemany raises, after the first n tuples.
ImportInsertFails ==
  /\ state = "Running"
  /\ pc = "loop"
  /\ ~ImportResult.raised
  /\ \E n \in 0..Len(ImportResult.cities_data) :
       /\ n = 0 \/ n < Len(ImportResult.cities_data)
       /\ cities_id_seq' = cities_id_seq + n
       /\ Abort(executemany_insert(pending, cities_id_seq,
                                   ImportResult.cities_data, n))
  /\ cities_data' = ImportResult.cities_data
  /\ UNCHANGED <<source, variant, batch_size, start_row, max_batches, run,
                 pc, i, batch_num, total_processed, total_inserted,
                 total_skipped, inserted_count, prev>>

\* conn.commit() returns: the table holds the new rows and none of the old
\* ones; "Imported N cities".
ImportCommit ==
  /\ state = "Running"
  /\ pc = "commit"
  /\ cities' = commit(delete_all(cities), pending)
  /\ pending' = <<>>
  /\ inserted_count' = Len(cities_data)
  /\ i' = Len(source)
  /\ pc' = "final"
  /\ UNCHANGED <<source, variant, batch_size, start_row, max_batches, run,
                 state, batch_num, cities_data, cities_id_seq,
                 total_processed, total_inserted, total_skipped, report,
                 prev>>

\* conn.commit() raises.
ImportCommitFails ==
  /\ state = "Running"
  /\ pc = "commit"
  /\ Abort(pending)
  /\ UNCHANGED <<source, variant, batch_size, start_row, max_batches, run,
                 pc, i, batch_num, cities_data, cities_id_seq,
                 total_processed, total_inserted, total_skipped,
                 inserted_count, prev>>

\* The database statistics are printed and main returns.
ImportFinish ==
  /\ state = "Running"
  /\ pc = "final"
  /\ state' = "Completed"
  /\ report' = [NoReport EXCEPT !.kind = "statistics",
                                !.inserted = Some(inserted_count),
                                !.cities = Some(Len(cities))]
  /\ UNCHANGED <<source, variant, batch_size, start_row, max_batches, run,
                 pc, i, batch_num, cities_data, cities, pending,
                 cities_id_seq, total_processed, total_inserted,
                 total_skipped, inserted_count, prev>>

NextImportCities ==
  \/ ImportInvoke
  \/ ImportStart
  \/ ImportCitiesData
  \/ ImportRowRaises
  \/ ImportInsertFails
  \/ ImportCommit
  \/ ImportCommitFails
  \/ ImportFinish

SpecImportCities == InitImportCities /\ [][NextImportCities]_vars

\* ------------------------------------------------------ the classifier alone

\* The country strings map_regions is called with: keys of the tables, a
\* country no table knows, a key in lower case, and the empty string.
Countries ==
  {<<"United States">>, <<"Japan">>, <<"Turkey">>, <<"Russian Federation">>,
   <<"Nowhereland">>, <<"united states">>, <<>>}

InitClassify ==
  /\ source = <<>>
  /\ variant \in Scripts
  /\ batch_size = 1
  /\ start_row = 0
  /\ max_batches = 1
  /\ run = 1
  /\ state = "Running"
  /\ pc = "loop"
  /\ i = 0
  /\ batch_num = 1
  /\ cities_data = <<>>
  /\ cities = <<>>
  /\ pending = <<>>
  /\ cities_id_seq = 1
  /\ total_processed = 0
  /\ total_inserted = 0
  /\ total_skipped = 0
  /\ inserted_count = 0
  /\ report = NoReport
  /\ prev = NoRun

\* region = map_regions(country), and the tuple with it is appended to
\* cities_data.
Classify ==
  /\ Len(cities_data) < MaxCalls
  /\ \E country \in Countries :
       cities_data' =
         Append(cities_data,
                [tuple |-> city_tuple(variant, <<"City">>, country, Absent,
                                      [lat |-> Absent, lng |-> Absent]),
                 src |-> Len(cities_data), run |-> run])
  /\ UNCHANGED <<source, variant, batch_size, start_row, max_batches, run,
                 state, pc, i, batch_num, cities, pending, cities_id_seq,
                 total_processed, total_inserted, total_skipped,
                 inserted_count, report, prev>>

NextClassify == Classify

SpecClassify == InitClassify /\ [][NextClassify]_vars

\* A step of a started script: the interpreter runs the next statement of
\* the loop, or the statements after it.
RunStep ==
  \/ SkipEmptyBatch
  \/ ExecuteMany
  \/ ExecuteManyFails
  \/ Commit
  \/ CommitFails
  \/ Finish

\* One run of a script that stops at an end row, started on an empty table.
InitFair ==
  /\ Init
  /\ variant \in {"comprehensive_import", "continue_next_batches"}

NextFair ==
  \/ StartRun
  \/ SkipEmptyBatch
  \/ ExecuteMany
  \/ ExecuteManyFails
  \/ Commit
  \/ CommitFails
  \/ Finish

\* A script that has been started is not suspended for ever: the process
\* keeps running until it ends.
SpecFair == InitFair /\ [][NextFair]_vars /\ WF_vars(RunStep)

\* ------------------------------------------- a sink that already has rows

\* A row the cities table holds before the script is started, written by
\* something else (CREATE TABLE IF NOT EXISTS leaves such a table as it is)
\* with an id of its own choice.
ExistingRow(id) ==
  [id |-> id,
   t |-> city_tuple("batch_import_cities", <<"Oldtown">>, <<"Japan">>, Absent,
                    [lat |-> Absent, lng |-> Absent]),
   src |-> -1, run |-> 0]

\* The tables the script may find: up to MaxStored rows, ids ascending.
ExistingTables ==
  { <<ExistingRow(a)>> : a \in 1..MaxStored }
    \cup { <<ExistingRow(p[1]), ExistingRow(p[2])>> :
             p \in { q \in (1..MaxStored) \X (1..MaxStored) : q[1] < q[2] } }

\* One run of batch-import-cities or comprehensive-import against such a
\* table; the sequence behind cities.id may be behind the ids stored.
InitSink ==
  /\ source \in Sources
  /\ variant \in {"batch_import_cities", "comprehensive_import"}
  /\ batch_size \in 1..MaxBatchSize
  /\ start_row \in StartRows(variant)
  /\ max_batches \in 1..MaxBatches
  /\ run = 1
  /\ state = "Idle"
  /\ pc = "loop"
  /\ i = 0
  /\ batch_num = 1
  /\ cities_data = <<>>
  /\ cities \in ExistingTables
  /\ pending = <<>>
  /\ cities_id_seq \in 1..(MaxStored + 1)
  /\ total_processed = 0
  /\ total_inserted = 0
  /\ total_skipped = 0
  /\ inserted_count = 0
  /\ report = NoReport
  /\ prev = NoRun

NextSink ==
  \/ StartRun
  \/ SkipEmptyBatch
  \/ ExecuteMany
  \/ ExecuteManyFails
  \/ Commit
  \/ CommitFails
  \/ Finish

SpecSink == InitSink /\ [][NextSink]_vars

\* ------------------------------- batch-import-cities, then continue-import

\* start_batch of continue-import: 11, the batch after the 10 batches at
\* which batch-import-cities stops; n is that limit.
start_batch(n) == n + 1

\* Mutant of start_idx: "start_idx = batch_num * batch_size".
start_idx_next(bnum, size) == bnum * size

\* start_idx = (batch_num - 1) * batch_size.
start_idx(bnum, size) == (bnum - 1) * size

\* continue-import is started after batch-import-cities has ended.  Both
\* scripts have the same batch_size, and range(start_batch, end_batch) has
\* as many batches as the limit of batch-import-cities.
InvokeContinueImport ==
  /\ variant = "batch_import_cities"
  /\ state \in {"Completed", "Aborted"}
  /\ variant' = "continue_import"
  /\ start_row' = start_idx(start_batch(max_batches), batch_size)
  /\ batch_num' = start_batch(max_batches)
  /\ run' = run + 1
  /\ state' = "Idle"
  /\ pc' = "loop"
  /\ i' = 0
  /\ cities_data' = <<>>
  /\ total_processed' = 0
  /\ total_inserted' = 0
  /\ total_skipped' = 0
  /\ inserted_count' = 0
  /\ report' = NoReport
  /\ prev' = [state |-> state, start_row |-> start_row,
              max_batches |-> max_batches, offset |-> i]
  /\ UNCHANGED <<source, batch_size, max_batches, cities, pending,
                 cities_id_seq>>

InitHandover ==
  /\ Init
  /\ variant = "batch_import_cities"

NextHandover ==
  \/ StartRun
  \/ SkipEmptyBatch
  \/ ExecuteMany
  \/ ExecuteManyFails
  \/ Commit
  \/ CommitFails
  \/ Finish
  \/ InvokeContinueImport

SpecHandover == InitHandover /\ [][NextHandover]_vars

\* ------------------------------------------- two scripts at the same time

\* small-batch-import and final-batches started side by side, each a process
\* with a connection of its own to the same database.  Here the variables of
\* a run (variant, batch_size, start_row, max_batches, run, state, pc, i,
\* batch_num, cities_data, pending, total_inserted) hold one value per
\* process; source, cities and cities_id_seq are shared.
Workers == {1, 2}

WorkerScript == <<"small_batch_import", "final_batches">>

\* The rows [start_row, start_row + max_batches * batch_size) of a script.
row_range(start, size, n) == start..(start + n * size - 1)

\* The scripts whose last line computes the progress from start_row +
\* max_batches * batch_size without min(..., len(df)).
UnclampedProgressScripts == {"final_batches", "power_import", "massive_import"}

\* The row offset named by the progress line a script prints when it ends.
final_progress_rows(v, src, start, n, size) ==
  IF v \in UnclampedProgressScripts
    THEN start + n * size
    ELSE Min(start + n * size, Len(src))

\* The totals process w prints after its loop.
worker_statistics(w) ==
  [NoReport EXCEPT !.kind = "statistics",
                   !.inserted = Some(total_inserted[w]),
                   !.cities = Some(Len(cities)),
                   !.progress_rows =
                     Some(final_progress_rows(variant[w], source, start_row[w],
                                              max_batches[w], batch_size[w]))]

InitConcurrent ==
  /\ source \in Sources
  /\ variant = [w \in Workers |-> WorkerScript[w]]
  /\ batch_size \in [Workers -> 1..MaxBatchSize]
  /\ max_batches \in [Workers -> 1..MaxBatches]
  /\ start_row \in [Workers -> 0..SrcLen]
  /\ row_range(start_row[1], batch_size[1], max_batches[1])
        \cap row_range(start_row[2], batch_size[2], max_batches[2]) = {}
  /\ run = [w \in Workers |-> w]
  /\ state = [w \in Workers |-> "Running"]
  /\ pc = [w \in Workers |-> "loop"]
  /\ i = start_row
  /\ batch_num = [w \in Workers |-> 1]
  /\ cities_data = [w \in Workers |-> <<>>]
  /\ cities = <<>>
  /\ pending = [w \in Workers |-> <<>>]
  /\ cities_id_seq = 1
  /\ total_processed = 0
  /\ total_inserted = [w \in Workers |-> 0]
  /\ total_skipped = 0
  /\ inserted_count = 0
  /\ report = [w \in Workers |-> NoReport]
  /\ prev = NoRun

\* Process w is at the head of its loop with a chunk to read.
WorkerAtLoopHead(w) ==
  /\ state[w] = "Running"
  /\ pc[w] = "loop"
  /\ loop_continues(variant[w], source, start_row[w], max_batches[w],
                    batch_size[w], i[w], batch_num[w])

WorkerChunk(w) ==
  process_chunk(variant[w], source, run[w], i[w], batch_size[w])

\* The next iteration of "for batch in range(max_batches)":
\* row_start = start_row + batch * batch_size.
WorkerLoopTail(w) ==
  /\ batch_num' = [batch_num EXCEPT ![w] = @ + 1]
  /\ i' = [i EXCEPT ![w] = start_row[w] + batch_num[w] * batch_size[w]]
  /\ pc' = [pc EXCEPT ![w] = "loop"]

\* "if cities_data:" is false.
WorkerSkipEmptyBatch(w) ==
  /\ WorkerAtLoopHead(w)
  /\ ~nonempty(WorkerChunk(w).cities_data)
  /\ cities_data' = [cities_data EXCEPT ![w] = <<>>]
  /\ WorkerLoopTail(w)
  /\ UNCHANGED <<source, variant, batch_size, start_row, max_batches, run,
                 state, cities, pending, cities_id_seq, total_processed,
                 total_inserted, total_skipped, inserted_count, report, prev>>

\* cursor.executemany in the transaction of process w: it sees the committed
\* rows and its own, and draws its ids from the shared sequence.
WorkerExecuteMany(w) ==
  /\ WorkerAtLoopHead(w)
  /\ nonempty(WorkerChunk(w).cities_data)
  /\ cities_data' = [cities_data EXCEPT ![w] = WorkerChunk(w).cities_data]
  /\ pending' = [pending EXCEPT ![w] =
                   executemany(cities, pending[w], cities_id_seq,
                               WorkerChunk(w).cities_data,
                               Len(WorkerChunk(w).cities_data))]
  /\ cities_id_seq' = cities_id_seq + Len(WorkerChunk(w).cities_data)
  /\ pc' = [pc EXCEPT ![w] = "commit"]
  /\ UNCHANGED <<source, variant, batch_size, start_row, max_batches, run,
                 state, i, batch_num, cities, total_processed, total_inserted,
                 total_skipped, inserted_count, report, prev>>

\* conn.commit() of process w returns.
WorkerCommit(w) ==
  /\ state[w] = "Running"
  /\ pc[w] = "commit"
  /\ cities' = commit(cities, pending[w])
  /\ pending' = [pending EXCEPT ![w] = <<>>]
  /\ total_inserted' = [total_inserted EXCEPT ![w] = @ + Len(cities_data[w])]
  /\ WorkerLoopTail(w)
  /\ UNCHANGED <<source, variant, batch_size, start_row, max_batches, run,
                 state, cities_data, cities_id_seq, total_processed,
                 total_skipped, inserted_count, report, prev>>

\* conn.commit() of process w raises: nothing catches it, the process dies
\* and its transaction is rolled back.
WorkerCommitFails(w) ==
  /\ state[w] = "Running"
  /\ pc[w] = "commit"
  /\ cities' = rollback(cities, pending[w])
  /\ pending' = [pending EXCEPT ![w] = <<>>]
  /\ state' = [state EXCEPT ![w] = "Aborted"]
  /\ UNCHANGED <<source, variant, batch_size, start_row, max_batches, run, pc,
                 i, batch_num, cities_data, cities_id_seq, total_processed,
                 total_inserted, total_skipped, inserted_count, report, prev>>

\* The loop of process w is over; it prints its totals and closes.
WorkerFinish(w) ==
  /\ state[w] = "Running"
  /\ pc[w] = "loop"
  /\ ~loop_continues(variant[w], source, start_row[w], max_batches[w],
                     batch_size[w], i[w], batch_num[w])
  /\ state' = [state EXCEPT ![w] = "Completed"]
  /\ report' = [report EXCEPT ![w] = worker_statistics(w)]
  /\ UNCHANGED <<source, variant, batch_size, start_row, max_batches, run, pc,
                 i, batch_num, cities_data, cities, pending, cities_id_seq,
                 total_processed, total_inserted, total_skipped,
                 inserted_count, prev>>

NextConcurrent ==
  \E w \in Workers :
    \/ WorkerSkipEmptyBatch(w)
    \/ WorkerExecuteMany(w)
    \/ WorkerCommit(w)
    \/ WorkerCommitFails(w)
    \/ WorkerFinish(w)

SpecConcurrent == InitConcurrent /\ [][NextConcurrent]_vars

\* ------------------------------------------------------------------- claims

\* The rows of the table that run r committed.
RowsOfRun(table, r) == SelectSeq(table, LAMBDA x : x.run = r)

\* A step in which conn.commit() returns.
CommitStep == state = "Running" /\ pc = "commit" /\ state' = "Running"

\* The tuples of cities_data no stored row holds yet.
NewTuples ==
  { k \in DOMAIN cities_data :
      \A j \in DOMAIN cities : cities[j].t # cities_data[k].tuple }

\* The batch in cities_data was loaded before: the table holds its tuples,
\* from the same source rows, in one run of consecutive rows.
LoadedBefore ==
  \E o \in 0..(Len(cities) - Len(cities_data)) :
    \A k \in DOMAIN cities_data :
      /\ cities[o + k].t = cities_data[k].tuple
      /\ cities[o + k].src = cities_data[k].src

\* C1: loading the same non-empty batch twice, the first load reports the
\* number of its rows that were new, the second load reports 0, and the
\* second load leaves the number of stored rows unchanged.
C1_LoadTwiceIdempotent ==
  [][CommitStep =>
       /\ NewTuples = DOMAIN cities_data =>
            /\ inserted_count' = Len(cities_data)
            /\ Len(cities') = Len(cities) + Len(cities_data)
       /\ LoadedBefore =>
            /\ inserted_count' = 0
            /\ Len(cities') = Len(cities)]_vars

\* C2: whatever runs went before, over repeated or overlapping ranges, no
\* two stored rows come from the same source row with the same name,
\* country and coordinates.
C2_NoDuplicateRows ==
  \A a, b \in DOMAIN cities :
    a # b =>
      ~ /\ cities[a].src = cities[b].src
        /\ cities[a].t.name = cities[b].t.name
        /\ cities[a].t.country = cities[b].t.country
        /\ cities[a].t.latitude = cities[b].t.latitude
        /\ cities[a].t.longitude = cities[b].t.longitude

\* A row, or a tuple of cities_data, without the run that wrote it.
Content(rows) ==
  [k \in DOMAIN rows |->
     [tuple |-> IF "t" \in DOMAIN rows[k] THEN rows[k].t ELSE rows[k].tuple,
      src |-> rows[k].src]]

\* The end of the range [start_row, end) of this run and of the previous one.
EndRow == end_row_of(source, start_row, max_batches, batch_size)

PrevEndRow == end_row_of(source, prev.start_row, prev.max_batches, batch_size)

\* This run resumed the aborted previous run at the offset it stopped at,
\* up to the same end, and completed.
ResumedAndCompleted ==
  /\ prev.state = "Aborted"
  /\ start_row = prev.offset
  /\ EndRow = PrevEndRow
  /\ state = "Completed"

\* What the aborted run and the run that resumed it left in the sink is
\* what one uninterrupted run over the whole range stores.
ResumeEqualsUninterrupted ==
  ResumedAndCompleted =>
    Content(SelectSeq(cities, LAMBDA x : x.run \in {run - 1, run}))
      = Content(process_rows(variant, source, run, prev.start_row,
                             EndRow).cities_data)

\* C3: a run that aborts after committing [start, k) reports
\* final_offset = k, and a following run over [k, end) leaves the stored set
\* of one uninterrupted run over [start, end).
C3_ResumeFromReportedOffset ==
  /\ state = "Aborted" => report.progress_rows = Some(i)
  /\ ResumeEqualsUninterrupted

\* The script stands between two batches, or has ended.
BetweenBatches ==
  \/ state = "Running" /\ pc \in {"loop", "final"}
  \/ state \in {"Completed", "Aborted"}

\* The offsets of the source rows in [start_row, i).
RowsCovered == { k \in start_row..(i - 1) : k < Len(source) }

\* C4: between two batches, and where the run stops, the sink holds every
\* eligible record of the source rows [start, offset) and no row this run
\* wrote comes from a source row at or beyond offset.
C4_OffsetIsResumePoint ==
  BetweenBatches =>
    /\ \A k \in RowsCovered :
         process_row(variant, source[k + 1]).kept =>
           \E j \in DOMAIN cities :
             /\ cities[j].run = run
             /\ cities[j].src = k
             /\ cities[j].t = process_row(variant, source[k + 1]).tuple
    /\ \A j \in DOMAIN cities : cities[j].run = run => cities[j].src < i

\* A run between two batches with a committed batch behind it, a dropped
\* row among the rows covered, and rows still ahead.
C4_Witness ==
  /\ state = "Running"
  /\ pc = "loop"
  /\ start_row < i
  /\ i < Len(source)
  /\ RowsOfRun(cities, run) # <<>>
  /\ \E k \in RowsCovered : ~process_row(variant, source[k + 1]).kept

\* C5: a run that ends, Completed or Aborted, reports final statistics with
\* final_offset, and on abort final_offset is the end of the last batch
\* whose commit succeeded.
C5_FinalOffsetReported ==
  state \in {"Completed", "Aborted"} =>
    /\ report.kind = "statistics"
    /\ report.progress_rows.some
    /\ state = "Aborted" => report.progress_rows.v = i

\* A step in which the write of the batch at offset i fails.
WriteFails == state = "Running" /\ report'.kind = "error"

\* C6: when the write of a batch fails, the rows committed before stay, no
\* row of the failed batch is stored, the run is Aborted, and the aborted
\* run attempts no further batch.
C6_FailedBatchAborts ==
  [][/\ WriteFails =>
          /\ state' = "Aborted"
          /\ cities' = cities
          /\ \A j \in DOMAIN cities' :
               cities'[j].run = run => cities'[j].src < i
     /\ state = "Aborted" /\ run' = run =>
          UNCHANGED <<state, cities, pending, i, batch_num>>]_vars

\* A run aborted at a later batch, with rows of its earlier batches stored.
C6_Witness ==
  /\ state = "Aborted"
  /\ batch_num > 1
  /\ RowsOfRun(cities, run) # <<>>

\* The offsets at which this run's chunks start.
ChunkStarts ==
  { o \in 0..(Len(source) - 1) :
      \E n \in 0..Len(source) : o = start_row + n * batch_size }

\* The stored rows that the given runs wrote from the chunk at offset o.
StoredOfChunk(runs, o) ==
  SelectSeq(cities,
            LAMBDA x : x.run \in runs
                       /\ x.src \in chunk_offsets(source, o, batch_size))

\* Of every batch of this run the table shows all tuples or none.
AllOrNothing ==
  \A o \in ChunkStarts :
    \/ StoredOfChunk({run}, o) = <<>>
    \/ Content(StoredOfChunk({run}, o))
         = Content(process_chunk(variant, source, run, o,
                                 batch_size).cities_data)

\* This run started at the batch whose load failed in the previous run, and
\* is past it.
RetriedFailedBatch ==
  /\ prev.state = "Aborted"
  /\ start_row = prev.offset
  /\ state # "Idle"
  /\ start_row < i

\* C7: a batch load is atomic, the table shows all rows of a batch or none
\* of them; and after the retry of a batch whose load failed the table
\* holds what one successful load of the batch stores.
C7_BatchLoadAtomic ==
  /\ AllOrNothing
  /\ RetriedFailedBatch =>
       Content(StoredOfChunk({run - 1, run}, start_row))
         = Content(process_chunk(variant, source, run, start_row,
                                 batch_size).cities_data)

\* The retry of a failed batch of two tuples has been committed.
C7_Witness ==
  /\ RetriedFailedBatch
  /\ Len(StoredOfChunk({run}, start_row)) = 2

C9_StateMachine ==
  [][/\ state' # state /\ run' = run =>
          <<state, state'>> \in {<<"Idle", "Running">>,
                                 <<"Running", "Completed">>,
                                 <<"Running", "Aborted">>}
     /\ run' # run => state \in {"Completed", "Aborted"} /\ state' = "Idle"
     /\ state' = "Completed" /\ state # "Completed" => i >= EndRow
     /\ state' = "Aborted" /\ state # "Aborted" =>
          /\ ChunkResult.cities_data # <<>>
          /\ pc = "commit" \/ (pc = "loop" /\ i < EndRow)
     /\ state \in {"Completed", "Aborted"} /\ run' = run =>
          UNCHANGED <<state, cities, pending, cities_data, i, batch_num>>]_vars

\* A run completed at the end of its range, with source rows left.
C9_Witness ==
  /\ state = "Completed"
  /\ i = EndRow
  /\ i < Len(source)

\* The row has a name and a country.
HasNameAndCountry(row) ==
  ~falsy_text(text_field(row.Name)) /\ ~falsy_text(text_field(row.Country))

\* The row's population is present and below the threshold.
PopulationBelowMinimum(row) ==
  /\ notna(row.Population)
  /\ parse_population(row.Population).parsed = "ok"
  /\ parse_population(row.Population).v < MinPopulation

\* C10: a record is rejected if and only if its population is present and
\* below min_population; a record with no population is accepted.
C10_RejectedIffBelowMinimum ==
  BetweenBatches =>
    \A k \in RowsCovered :
      HasNameAndCountry(source[k + 1]) =>
        ( (\E j \in DOMAIN cities : cities[j].run = run /\ cities[j].src = k)
            <=> ~PopulationBelowMinimum(source[k + 1]) )

\* The row's Population cell is present and int(float(...)) raises on it.
PopulationUnparseable(row) ==
  /\ notna(row.Population)
  /\ parse_population(row.Population).parsed # "ok"

\* C11: a row with a name and a country whose Population cell is present
\* but cannot be parsed as a number is not dropped: it is stored, with its
\* population absent.
C11_UnparseablePopulationKept ==
  BetweenBatches =>
    \A k \in RowsCovered :
      HasNameAndCountry(source[k + 1]) /\ PopulationUnparseable(source[k + 1])
        => \E j \in DOMAIN cities :
             /\ cities[j].run = run
             /\ cities[j].src = k
             /\ cities[j].t.population = Absent

\* C12: the latitude and the longitude of a stored row are both present or
\* both absent, whatever the Coordinates cell holds: no stored row has
\* exactly one of them.
C12_NoPartialCoordinatePair ==
  \A j \in DOMAIN cities :
    cities[j].t.latitude.some <=> cities[j].t.longitude.some

\* C13: every stored row has a non-empty name and a non-empty country, and
\* comes from a source row whose Name and Country name EN cells are present
\* and not blank after trimming.
C13_StoredRowsHaveNameAndCountry ==
  \A j \in DOMAIN cities :
    /\ cities[j].t.name # <<>>
    /\ cities[j].t.country # <<>>
    /\ HasNameAndCountry(source[cities[j].src + 1])

\* The regions of the specification.
Regions ==
  {"North America", "Europe", "Asia", "Africa", "South America", "Oceania",
   "Other"}

\* C14: the region of every classified record is one of North America,
\* Europe, Asia, Africa, South America, Oceania and Other, for every
\* country string and every script's classifier.
C14_RegionInEnumeratedSet ==
  \A k \in DOMAIN cities_data : cities_data[k].tuple.region \in Regions

C16_OneCanonicalTable ==
  \A j \in DOMAIN cities :
    \A script \in Scripts :
      cities[j].t.region = map_regions(script, cities[j].t.country)

\* The first run, on the empty sink, went through the whole source from
\* row 0 and completed.
FirstRunOverWholeSource ==
  /\ run = 1
  /\ state = "Completed"
  /\ start_row = 0
  /\ i >= Len(source)

\* C17: on an empty sink, a run with the threshold 1000 over the rows
\* Springfield (United States, 1500, "39.78,-89.65"), Smallville (United
\* States, 200, "39.0,-88.0") and Unknown City (Nowhereland, 5000, no
\* coordinates) stores exactly two rows: Springfield with region North
\* America and both coordinates, Unknown City with region Other and no
\* coordinates; batch-import-cities counts Smallville as skipped.
C17_ThreeRowScenario ==
  FirstRunOverWholeSource =>
    /\ Len(cities) = 2
    /\ cities[1].src = 0
    /\ cities[1].t =
         [name |-> <<"Springfield">>, country |-> <<"United States">>,
          region |-> "North America", population |-> Some(1500),
          latitude |-> Some(3978), longitude |-> Some(-8965),
          timezone |-> Absent, is_capital |-> FALSE]
    /\ cities[2].src = 2
    /\ cities[2].t =
         [name |-> <<"Unknown City">>, country |-> <<"Nowhereland">>,
          region |-> "Other", population |-> Some(5000),
          latitude |-> Absent, longitude |-> Absent,
          timezone |-> Absent, is_capital |-> FALSE]
    /\ variant = "batch_import_cities" =>
         /\ total_skipped = 1
         /\ report.skipped = Some(1)

\* batch-import-cities has completed its first run over the three rows.
C17_Witness ==
  /\ FirstRunOverWholeSource
  /\ source = ScenarioSource
  /\ variant = "batch_import_cities"
  /\ Len(cities) = 2
  /\ total_skipped = 1

\* The batch in cities_data has been handed to the Loader.
BatchAtLoader == state = "Running" /\ pc = "commit"

\* The chunk at offset i has fewer than batch_size source rows.
ShortChunk == Cardinality(chunk_offsets(source, i, batch_size)) < batch_size

\* C18: a batch handed to the Loader has at most batch_size records, all
\* from the source rows of its chunk and in their order; a batch from
\* fewer than batch_size source rows is the last of its run.
C18_BatchSizeAndOrder ==
  BatchAtLoader =>
    /\ Len(cities_data) <= batch_size
    /\ \A k \in DOMAIN cities_data :
         cities_data[k].src \in chunk_offsets(source, i, batch_size)
    /\ \A a, b \in DOMAIN cities_data :
         a < b => cities_data[a].src < cities_data[b].src
    /\ ShortChunk =>
         ~loop_continues(variant, source, start_row, max_batches, batch_size,
                         i + batch_size, batch_num + 1)

\* A full batch of two records is at the Loader, and so is, in another
\* state, the short last batch of a run.
C18_Witness ==
  /\ BatchAtLoader
  /\ batch_size = 2
  /\ \/ Len(cities_data) = 2
     \/ ShortChunk /\ batch_num > 1

\* The loop is at a chunk all of whose rows are filtered out.
AtEmptyChunk == AtLoopHead /\ ChunkResult.cities_data = <<>>

\* C19: the Loader is never called with an empty batch: at a chunk whose
\* rows are all filtered out the script inserts nothing, commits nothing
\* and goes on to the next chunk; every call of executemany has a tuple
\* to insert.
C19_NoEmptyBatchLoad ==
  [][/\ AtEmptyChunk =>
          /\ UNCHANGED <<cities, pending, cities_id_seq>>
          /\ state' = "Running"
          /\ pc' # "commit"
          /\ i' = i + batch_size
          /\ batch_num' = batch_num + 1
     /\ pc' = "commit" /\ pc # "commit" => cities_data' # <<>>]_vars

\* The run has skipped an empty chunk without a load and stands at the next
\* chunk, with nothing stored yet.
C19_Witness ==
  /\ state = "Running"
  /\ pc = "loop"
  /\ start_row < i
  /\ i < Len(source)
  /\ cities_data = <<>>
  /\ RowsOfRun(cities, run) = <<>>

\* C20: no defect of a single row aborts the run: a run is Aborted only by
\* an error of the database, never by an exception raised while a row is
\* transformed.
C20_RowDefectNeverAborts ==
  state = "Aborted" => report.error = "database"

\* A step in which the script dies of a configuration defect.
ConfigurationDefectStep ==
  state = "Idle" /\ report = NoReport /\ report'.kind = "error"

\* C21: on a configuration defect (DATABASE_URL missing, source file
\* missing or unreadable) the run fails before any batch begins: it never
\* starts, and the stored rows are the same as before the run.
C21_ConfigDefectWritesNothing ==
  [][ConfigurationDefectStep =>
       /\ state' = "Idle"
       /\ batch_num' = batch_num
       /\ UNCHANGED <<cities, pending, cities_id_seq>>]_vars

\* C22: batches are strictly sequential: a chunk is read only when no
\* transaction is open, the one open transaction holds rows of the chunk
\* at the current offset only, and the rows a run has committed stand in
\* the table in increasing source offset.
C22_BatchesSequential ==
  /\ state = "Running" /\ pc = "loop" => pending = <<>>
  /\ pending # <<>> =>
       /\ state = "Running" /\ pc = "commit"
       /\ \A k \in DOMAIN pending :
            /\ pending[k].run = run
            /\ pending[k].src \in chunk_offsets(source, i, batch_size)
  /\ \A a, b \in DOMAIN cities :
       a < b /\ cities[a].run = run /\ cities[b].run = run
         => cities[a].src < cities[b].src

\* A later batch of the run is in flight while rows of its earlier batches
\* are committed.
C22_Witness ==
  /\ state = "Running"
  /\ pc = "commit"
  /\ pending # <<>>
  /\ RowsOfRun(cities, run) # <<>>

\* C23: a progress line never reports more completed batches than the loop
\* has completed (batch_num counts from 1, so batch_num - 1 iterations are
\* behind the loop), nor more stored rows than the table holds.
C23_ProgressNeverAhead ==
  report.kind = "progress" =>
    /\ report.batches_completed.v <= batch_num - 1
    /\ report.cities.v <= Len(cities)

\* A stored row without its id: the tuple, the source row it came from and
\* the process that wrote it.
StoredRecords(table) ==
  { [t |-> table[k].t, src |-> table[k].src, run |-> table[k].run] :
      k \in DOMAIN table }

\* The records process w stores when it runs alone from start to end: the
\* kept rows of its row range.
RecordsOfWorker(w) ==
  LET d == process_rows(variant[w], source, run[w], start_row[w],
                        Min(start_row[w] + max_batches[w] * batch_size[w],
                            Len(source))).cities_data
  IN  { [t |-> d[k].tuple, src |-> d[k].src, run |-> d[k].run] :
          k \in DOMAIN d }

\* C24: two processes over disjoint row ranges, their commits interleaved in
\* any order: no source row is stored twice, nothing is stored that the two
\* runs one after the other would not store, and once both have completed
\* the stored records are exactly those of the two runs one after the other
\* (the ids, drawn from the shared sequence, aside).
C24_ConcurrentAsSequential ==
  /\ \A a, b \in DOMAIN cities : a # b => cities[a].src # cities[b].src
  /\ StoredRecords(cities) \subseteq RecordsOfWorker(1) \cup RecordsOfWorker(2)
  /\ (\A w \in Workers : state[w] = "Completed")
       => StoredRecords(cities) = RecordsOfWorker(1) \cup RecordsOfWorker(2)

\* Both processes have completed, both have stored rows, and a row inserted
\* later (higher id) was committed earlier: the transactions overlapped.
C24_Witness ==
  /\ \A w \in Workers : state[w] = "Completed"
  /\ \A w \in Workers : RowsOfRun(cities, w) # <<>>
  /\ \E a, b \in DOMAIN cities : a < b /\ cities[a].id > cities[b].id

\* A step in which cursor.executemany returns.
ExecuteManyStep == state = "Running" /\ pc = "loop" /\ pc' = "commit"

\* The id the k-th tuple of the batch draws from the sequence.
DrawnId(k) == cities_id_seq + k - 1

\* C25: a batch load inserts what is absent and leaves the rest alone.
\* When executemany returns, the stored rows are as they were, a tuple whose
\* id is the id of a stored row has added nothing, and every other tuple of
\* the batch is in the transaction; the commit that follows appends the
\* transaction to the stored rows and changes none of them.
C25_InsertIfAbsent ==
  [][/\ ExecuteManyStep =>
          /\ cities' = cities
          /\ \A k \in DOMAIN cities_data' :
               IF \E j \in DOMAIN cities : cities[j].id = DrawnId(k)
                 THEN \A m \in DOMAIN pending' : pending'[m].id # DrawnId(k)
                 ELSE \E m \in DOMAIN pending' :
                        /\ pending'[m].id = DrawnId(k)
                        /\ pending'[m].t = cities_data'[k].tuple
     /\ CommitStep => cities' = cities \o pending]_vars

\* The first batch had two tuples, one conflicted with a stored row and the
\* other was committed, and the stored row is still there.
C25_Witness ==
  /\ state = "Running" /\ pc = "loop" /\ batch_num = 2
  /\ inserted_count = 2
  /\ Len(RowsOfRun(cities, run)) = 1
  /\ \E k \in DOMAIN cities : cities[k] = ExistingRow(cities[k].id)

\* The offsets of the source rows of the k-th chunk of the run (k from 0).
ChunkRead(k) == chunk_offsets(source, start_row + k * batch_size, batch_size)

\* The chunks the loop has been through.
ChunksRead == 0..(batch_num - 2)

\* C26: a started run ends, Completed or Aborted; from one iteration to the
\* next the offset grows by batch_size, which is positive; and when a run
\* is Completed the chunks it read are consecutive and disjoint and make
\* up the source rows [start_row, EndRow).
C26_TerminatesAndCoversRange ==
  /\ (state = "Running") ~> (state \in {"Completed", "Aborted"})
  /\ [][state = "Running" /\ i' # i /\ run' = run
         => batch_size > 0 /\ i' = i + batch_size]_vars
  /\ [](state = "Completed" =>
          /\ i = start_row + (batch_num - 1) * batch_size
          /\ UNION { ChunkRead(k) : k \in ChunksRead }
               = { k \in start_row..(EndRow - 1) : k < Len(source) }
          /\ \A a, b \in ChunksRead :
               a # b => ChunkRead(a) \cap ChunkRead(b) = {})

\* A run of a script with an end row has completed after more than one
\* chunk, with the end of its range inside the source.
C26_Witness ==
  /\ state = "Completed"
  /\ variant \notin LimitVariants
  /\ batch_num > 2
  /\ start_row + max_batches * batch_size < Len(source)

\* C27: in the scripts that count the rows they process, between two
\* batches and where the run stops, processed + skipped is the number of
\* source rows read, and the final statistics give the skipped count.
C27_DroppedRowsCounted ==
  variant \in LimitVariants =>
    /\ BetweenBatches =>
         total_processed + total_skipped = Cardinality(RowsCovered)
    /\ state = "Completed" => report.skipped = Some(total_skipped)

\* C28: every stored latitude lies in [-90, 90] and every stored longitude
\* in [-180, 180] (coordinates are held in hundredths of a degree).
C28_CoordinatesInRange ==
  \A j \in DOMAIN cities :
    /\ cities[j].t.latitude.some =>
         -9000 <= cities[j].t.latitude.v /\ cities[j].t.latitude.v <= 9000
    /\ cities[j].t.longitude.some =>
         -18000 <= cities[j].t.longitude.v /\ cities[j].t.longitude.v <= 18000

\* C29: every row written, committed or still in the open transaction, has
\* no timezone and is_capital false.
C29_TimezoneAbsentNotCapital ==
  \A rows \in {cities, pending} :
    \A j \in DOMAIN rows :
      /\ rows[j].t.timezone = Absent
      /\ rows[j].t.is_capital = FALSE

\* The table holds rows of two different cities, one with a population and
\* coordinates and one without.
C29_Witness ==
  \E a, b \in DOMAIN cities :
    /\ cities[a].t.name # cities[b].t.name
    /\ cities[a].t.population.some /\ cities[a].t.latitude.some
    /\ ~cities[b].t.population.some /\ ~cities[b].t.latitude.some

\* C30: no step of a run removes or changes a stored row: every row of the
\* table before the step is a row of the table after it.
C30_StoredRowsKept ==
  [][\A j \in DOMAIN cities : \E k \in DOMAIN cities' : cities'[k] = cities[j]]_vars

\* C31: the offset named by the progress line a script prints when it ends
\* is at most the number of rows of the source and at most the offset its
\* loop reached.
C31_FinalProgressWithinSource ==
  \A w \in Workers :
    report[w].kind = "statistics" =>
      /\ report[w].progress_rows.v <= Len(source)
      /\ report[w].progress_rows.v <= Min(i[w], Len(source))

\* The tuples and source rows of a sequence of stored rows, in order.
StoredInOrder(table) ==
  [k \in DOMAIN table |-> [tuple |-> table[k].t, src |-> table[k].src]]

\* The tuples the rows [start_row, i) of the source give when they are
\* transformed in one pass, as one chunk.
OnePass ==
  LET d == process_rows(variant, source, run, start_row,
                        Min(i, Len(source))).cities_data
  IN  [k \in DOMAIN d |-> [tuple |-> d[k].tuple, src |-> d[k].src]]

\* C32: when the first run, on the empty sink, has completed, the stored
\* rows are those of its source range transformed in one pass: they depend
\* on the range, not on the batch size it was cut with.
C32_IndependentOfBatchSize ==
  run = 1 /\ state = "Completed" => StoredInOrder(cities) = OnePass

\* A first run has completed with batch_size 1 and the rows of two batches
\* stored.
C32_Witness ==
  /\ run = 1 /\ state = "Completed"
  /\ batch_size = 1
  /\ Len(cities) >= 2

\* C33: a script with a session limit of max_batches batches never has a
\* batch beyond the limit at the loader and never reads beyond
\* start_row + max_batches * batch_size; when it has completed it has been
\* through max_batches batches, or fewer only with the source exhausted.
C33_BatchLimitExact ==
  variant \in LimitVariants /\ state # "Idle" =>
    /\ batch_num - 1 <= max_batches
    /\ pc = "commit" => batch_num <= max_batches
    /\ i <= start_row + max_batches * batch_size
    /\ state = "Completed" =>
         batch_num - 1 = max_batches \/ i >= Len(source)

\* A run has stopped at its limit of two batches with source rows left.
C33_Witness ==
  /\ variant \in LimitVariants
  /\ state = "Completed"
  /\ max_batches = 2
  /\ batch_num - 1 = max_batches
  /\ i < Len(source)

\* The source rows batch-import-cities went through before it completed.
RowsOfFirstScript == { k \in 0..(prev.offset - 1) : k < Len(source) }

\* C34: continue-import, started after batch-import-cities has completed,
\* reads from the row at which batch-import-cities stopped: the offset of
\* each of its batches is (batch_num - 1) * batch_size, the rows of the two
\* runs are disjoint and together make up the rows before the offset, and
\* no source row is stored twice.
C34_ContinueImportContiguous ==
  variant = "continue_import" /\ prev.state = "Completed"
    /\ state # "Idle" =>
    /\ i = start_idx(batch_num, batch_size)
    /\ RowsOfFirstScript \cap RowsCovered = {}
    /\ RowsOfFirstScript \cup RowsCovered
         = { k \in 0..(i - 1) : k < Len(source) }
    /\ \A a, b \in DOMAIN cities : a # b => cities[a].src # cities[b].src

\* continue-import has completed after batch-import-cities stopped at its
\* limit with rows left, and both have stored rows.
C34_Witness ==
  /\ variant = "continue_import" /\ prev.state = "Completed"
  /\ state = "Completed"
  /\ prev.offset < Len(source)
  /\ RowsOfRun(cities, 1) # <<>>
  /\ RowsOfRun(cities, 2) # <<>>

\* The tuples of a sequence of records, in order, without the ids.
TuplesOf(rows) == [k \in DOMAIN rows |-> rows[k].tuple]

\* The tuples of the rows of a table, in order, without the ids.
TuplesStored(table) == [k \in DOMAIN table |-> table[k].t]

\* C35: import_cities_data replaces the table atomically: the committed
\* table changes only in the step in which conn.commit() returns, and then
\* from the old rows to exactly the new rows; a step that ends the script
\* on an error leaves the stored rows as they were.
C35_ReplaceIsAtomic ==
  [][(cities' # cities =>
        /\ pc = "commit" /\ pc' = "final"
        /\ TuplesStored(cities') = TuplesOf(cities_data)
        /\ \A k \in DOMAIN cities' : cities'[k].run = run)
     /\ (state' = "Aborted" => cities' = cities)]_vars

\* The second import has failed after some of its inserts, and the rows of
\* the first import are still stored.
C35_Witness ==
  /\ variant = "import_cities"
  /\ run = 2 /\ prev.state = "Completed" /\ state = "Aborted"
  /\ cities # <<>>
  /\ \A k \in DOMAIN cities : cities[k].run = 1
  /\ cities_id_seq > Len(cities) + 1

\* The tuples one import of the source stores.
ImportedOnce == TuplesOf(import_rows(source, 1, Len(source)).cities_data)

\* C36: whenever import-cities has completed, for the first time or again on
\* the same source, the stored content without the ids is the content one
\* import stores.
C36_ImportIdempotent ==
  variant = "import_cities" /\ state = "Completed" =>
    TuplesStored(cities) = ImportedOnce

\* The import has completed twice on the same source, and the table holds
\* the rows of the second import.
C36_Witness ==
  /\ variant = "import_cities"
  /\ run = 2 /\ prev.state = "Completed" /\ state = "Completed"
  /\ Len(cities) >= 2
  /\ \A k \in DOMAIN cities : cities[k].run = 2

\* What batch-import-cities makes of its inputs alone: the transformation of
\* the rows from 0 up to the batch limit or the end of the source.
ExpectedOfInputs ==
  process_rows("batch_import_cities", source, 1, 0,
               end_row_of(source, 0, max_batches, batch_size))

\* C37: the outcome of a completed first run of batch-import-cities on an
\* empty sink is a function of the source, the batch size, the batch limit
\* and the threshold: the stored rows, the processed and skipped totals and
\* the final report are the ones computed from these inputs, so two such
\* runs agree.
C37_Deterministic ==
  variant = "batch_import_cities" /\ run = 1 /\ state = "Completed" =>
    /\ TuplesStored(cities) = TuplesOf(ExpectedOfInputs.cities_data)
    /\ total_processed = ExpectedOfInputs.processed
    /\ total_skipped = ExpectedOfInputs.skipped
    /\ report = [NoReport EXCEPT
                   !.kind = "statistics",
                   !.processed = Some(ExpectedOfInputs.processed),
                   !.skipped = Some(ExpectedOfInputs.skipped),
                   !.cities = Some(Len(ExpectedOfInputs.cities_data))]

\* A first run of batch-import-cities has completed in two batches, with
\* rows stored and rows skipped.
C37_Witness ==
  /\ variant = "batch_import_cities" /\ run = 1 /\ state = "Completed"
  /\ batch_num = 3
  /\ cities # <<>>
  /\ total_processed > 0
  /\ total_skipped > 0

\* The source rows the run has read when its loop stands at offset.
RowsReadSoFar(offset) == Min(offset, Len(source)) - Min(start_row, Len(source))

\* What a step of a run of complete-import or batch-import-cities does to
\* the totals: none decreases; a step that ends a batch leaves them
\* ordered, and leaves the inserted total alone when the chunk gave no
\* tuple.
CountersStep ==
  variant \in LimitVariants /\ run' = run =>
    /\ total_processed' >= total_processed
    /\ total_inserted' >= total_inserted
    /\ total_skipped' >= total_skipped
    /\ (batch_num' = batch_num + 1) =>
         /\ total_inserted' <= total_processed'
         /\ total_processed' <= RowsReadSoFar(i')
         /\ (pc = "loop") => (total_inserted' = total_inserted)

\* C38: in a run of complete-import or batch-import-cities no total ever
\* decreases; after every batch the inserted total is at most the processed
\* total, which is at most the number of source rows read so far; and a
\* batch whose rows are all filtered out leaves the inserted total as it
\* was.
C38_CountersOrdered == [][CountersStep]_vars

\* complete-import has run a batch that stored rows and then a batch whose
\* rows were all filtered out.
C38_Witness ==
  /\ variant = "complete_import" /\ state = "Running"
  /\ batch_num = 3
  /\ cities_data = <<>>
  /\ total_inserted > 0
  /\ total_processed = total_inserted
  /\ total_processed < RowsReadSoFar(i)

====
